---- MODULE Spec2Model ----
(***************************************************************************)
(* Model of main.py: one synchronisation pass of the relive downloader    *)
(* (feed fetch, per-entry resolve / upsert / asset downloads / release    *)
(* page enrichment), the SQLite catalog (tables talks and files) and the  *)
(* download directory.                                                     *)
(*                                                                         *)
(* Representation.                                                         *)
(*   - Python None / SQL NULL / a missing dict key read with .get():       *)
(*     None == <<>>, a present value v is Some(v) == <<v>>.                *)
(*   - A dict (feed entry) is a function whose DOMAIN is its key set.      *)
(*   - A URL is the sequence of its "/"-separated segments, so that        *)
(*     url.split("/")[-1] and url.startswith("//") are computed.           *)
(*   - A title / link text is a sequence of one-character strings, so      *)
(*     that lower() and the substring test are computed.                   *)
(*   - A file on disk is [size, content, whole]: its length in chunks,     *)
(*     the URL whose body it holds, and whether the body was written to    *)
(*     its end.                                                            *)
(***************************************************************************)
EXTENDS Integers, Sequences, FiniteSets, TLC

VARIABLES
    pc,            \* position of the script inside main()
    processed,     \* feed entries taken from the loop so far, over all passes
                   \* (counted while the remote is arbitrary: it limits the
                   \* feeds such a remote serves)
    feedOk,        \* did the feed fetch of the current/last pass succeed
    data,          \* entries of the feed not yet iterated (for entry in data)
    entry,         \* loop variable `entry`
    talk_data,     \* local `talk_data`
    extra_info,    \* local `extra_info`
    audio_left,    \* audio_urls not yet iterated
    asset,         \* [file_type, url, path] of the download_file call of the
                   \* last step, << >> when the step made none
    ret,           \* what that call returned (success_muxed, success_thumb, ...)
    talks,         \* table talks: id -> row
    files,         \* table files: sequence of rows, id = position
    disk,          \* download directory: path -> file
    expected_size, \* download experiment: what the probe of the call reported
    transfer,      \* download experiment: the GET of the call, None if not issued
    fpc,           \* download experiment: "returned" or "killed" after a call
    snap1, snap2,  \* upsert experiment: the two snapshots
    cat0,          \* upsert experiment: the catalog it started from
    catSeq,        \* upsert experiment: catalog after upsert(S1) then upsert(S2)
    catOne,        \* upsert experiment: catalog after upsert(S1) alone
    catTwo,        \* upsert experiment: catalog after upsert(S2) alone
    hpc,           \* upsert experiment: position
    remote,        \* None when every request may get any answer, else the
                   \* answers this remote may give to each kind of request
    ref,           \* resume experiment: talks, files and directory after the
                   \* uninterrupted pass, None before it has ended
    killed,        \* resume experiment: None, or the position at which a pass
                   \* was interrupted and the directory it left
    ask,           \* resolver experiment: the title and the listing served
    answer         \* resolver experiment: << >>, or what the call did

mainVars == <<pc, processed, feedOk, data, entry, talk_data, extra_info,
              audio_left, talks, files>>

callVars == <<asset, ret, disk>>

fetchVars == <<expected_size, transfer, fpc>>

upsertVars == <<snap1, snap2, cat0, catSeq, catOne, catTwo, hpc>>

resumeVars == <<remote, ref, killed>>

resolveVars == <<ask, answer>>

vars == <<mainVars, callVars, fetchVars, upsertVars, resumeVars, resolveVars>>

----------------------------------------------------------------------------
(* Bounds *)

\* feed entries iterated over all passes together
MaxEntries == 2
\* chunks in a response body, and the largest Content-Length
MaxSize == 1
\* largest mtime of the upsert experiment
MaxMtime == 2
\* event-preview blocks on a listing page of the resolver experiment
MaxPreviews == 3

----------------------------------------------------------------------------
(* Python values *)

None == <<>>
Some(v) == <<v>>
Val(o) == o[1]

\* dict.get(key): None when the key is missing
Get(d, k) == IF k \in DOMAIN d THEN Some(d[k]) ELSE None

\* dict.get(key, default)
GetDefault(d, k, default) == IF k \in DOMAIN d THEN d[k] ELSE default

EmptyStr == <<>>

\* truth value of an optional string/URL/title: None and "" are false
Truthy(o) == o # None /\ Val(o) # EmptyStr

----------------------------------------------------------------------------
(* Catalog: table talks *)

\* row inserted by upsert_talk; authors and description are not listed in
\* the INSERT and stay NULL
InsertedRow(td) ==
    [guid |-> td.guid, title |-> td.title, room |-> td.room,
     status |-> td.status, start |-> td.start, duration |-> td.duration,
     release_url |-> td.release_url, authors |-> None, description |-> None,
     last_mtime |-> td.mtime]

\* faulty variant: the UPDATE does not list the release_url column
UpdatedRowKeepsReleaseUrl(row, td) ==
    [row EXCEPT !.guid = td.guid, !.title = td.title, !.room = td.room,
                !.status = td.status, !.start = td.start,
                !.duration = td.duration, !.last_mtime = td.mtime]

\* row after the UPDATE of upsert_talk
UpdatedRow(row, td) ==
    [row EXCEPT !.guid = td.guid, !.title = td.title, !.room = td.room,
                !.status = td.status, !.start = td.start,
                !.duration = td.duration, !.release_url = td.release_url,
                !.last_mtime = td.mtime]

\* existing_mtime = row[1] if row[1] else 0
ExistingMtime(row) == IF row.last_mtime # 0 THEN row.last_mtime ELSE 0

\* faulty variant: the staleness test accepts an equal mtime
IsNewerOrEqual(td, row) == td.mtime >= ExistingMtime(row)

\* talk_data["mtime"] > existing_mtime
IsNewer(td, row) == td.mtime > ExistingMtime(row)

\* faulty variant: a talk that has no row yet is not inserted
UpsertTalkUpdateOnly(t, td) ==
    IF td.id \in DOMAIN t /\ IsNewer(td, t[td.id])
    THEN [t EXCEPT ![td.id] = UpdatedRow(t[td.id], td)]
    ELSE t

\* faulty variant: the UPDATE leaves last_mtime as it was
UpsertTalkKeepsMtime(t, td) ==
    IF td.id \notin DOMAIN t
    THEN t @@ (td.id :> InsertedRow(td))
    ELSE IF IsNewer(td, t[td.id])
         THEN [t EXCEPT ![td.id] =
                  [UpdatedRow(t[td.id], td) EXCEPT !.last_mtime = t[td.id].last_mtime]]
         ELSE t

\* upsert_talk(conn, talk_data) on table t
UpsertTalk(t, td) ==
    IF td.id \notin DOMAIN t
    THEN t @@ (td.id :> InsertedRow(td))
    ELSE IF IsNewer(td, t[td.id])
         THEN [t EXCEPT ![td.id] = UpdatedRow(t[td.id], td)]
         ELSE t

----------------------------------------------------------------------------
(* Catalog: table files *)

\* SELECT id FROM files WHERE talk_id = ? AND file_type = ? AND file_url = ?
FileRowExists(f, talk_id, file_type, file_url) ==
    \E i \in 1..Len(f) : /\ f[i].talk_id = talk_id
                         /\ f[i].file_type = file_type
                         /\ f[i].file_url = file_url

\* faulty variant: a plain INSERT without the existence query
InsertFileAlways(f, talk_id, file_type, file_url, local_path) ==
    Append(f, [id |-> Len(f) + 1, talk_id |-> talk_id, file_type |-> file_type,
               file_url |-> file_url, local_path |-> local_path])

\* insert_or_ignore_file(conn, talk_id, file_type, file_url, local_path)
InsertOrIgnoreFile(f, talk_id, file_type, file_url, local_path) ==
    IF FileRowExists(f, talk_id, file_type, file_url)
    THEN f
    ELSE Append(f, [id |-> Len(f) + 1, talk_id |-> talk_id,
                    file_type |-> file_type, file_url |-> file_url,
                    local_path |-> local_path])

----------------------------------------------------------------------------
(* download_file(url, dest_path), as a function of the download directory,   *)
(* its arguments and what the remote does: the result of the HEAD probe and  *)
(* the course of the GET.  Sizes count chunks: every chunk that iter_content *)
(* yields adds one to the size of the file.                                  *)

Exists(d, path) == path \in DOMAIN d

\* dest_path.unlink()
Unlink(d, path) == [q \in DOMAIN d \ {path} |-> d[q]]

\* the file after open(dest_path, 'wb') and n times f.write(chunk)
Written(d, path, url, n, whole) ==
    [q \in DOMAIN d \cup {path} |->
        IF q = path THEN [size |-> n, content |-> url, whole |-> whole]
        ELSE d[q]]

\* results of the HEAD probe: None (request failed, status not ok, header
\* missing or not an integer) or the Content-Length
ProbeResults == { None } \cup { Some(n) : n \in 0..MaxSize }

\* courses of the GET: "refused" (requests.get or raise_for_status raises),
\* "broken" (iter_content raises after `chunks` chunks), "complete" (the body
\* ends after `chunks` chunks)
Transfers ==
    { [fate |-> "refused", chunks |-> 0] } \cup
    { [fate |-> f, chunks |-> n] : f \in {"broken", "complete"}, n \in 0..MaxSize }

\* faulty variant: any file at the destination counts as complete
SkipRuleExistingFile(expected, d, path) == Exists(d, path)

\* faulty variant: the skip test does not compare the size
SkipRuleAnySize(expected, d, path) ==
    /\ expected # None
    /\ Val(expected) # 0
    /\ Exists(d, path)

\* if expected_size and dest_path.exists()
\*    and dest_path.stat().st_size == expected_size
SkipRule(expected, d, path) ==
    /\ expected # None
    /\ Val(expected) # 0
    /\ Exists(d, path)
    /\ d[path].size = Val(expected)

\* if dest_path.exists(): dest_path.unlink(), before the GET
RemoveStale(d, path) == IF Exists(d, path) THEN Unlink(d, path) ELSE d

\* faulty variant: the except branch returns without deleting the file
CleanupKeepsFile(d, path) == d

\* except requests.RequestException: if dest_path.exists(): dest_path.unlink()
Cleanup(d, path) == IF Exists(d, path) THEN Unlink(d, path) ELSE d

\* result [ret, disk, get]: the return value, the directory afterwards and
\* whether the GET was issued.  A size other than expected_size after a
\* complete transfer only prints a warning: both branches return True.
DownloadFile(d, url, path, probe, t) ==
    IF SkipRule(probe, d, path)
    THEN [ret |-> TRUE, disk |-> d, get |-> FALSE]
    ELSE LET cleared == RemoveStale(d, path)
         IN CASE t.fate = "refused" ->
                   [ret |-> FALSE, disk |-> Cleanup(cleared, path), get |-> TRUE]
              [] t.fate = "broken" ->
                   [ret |-> FALSE,
                    disk |-> Cleanup(Written(cleared, path, url, t.chunks, FALSE),
                                     path),
                    get |-> TRUE]
              [] t.fate = "complete" ->
                   [ret |-> TRUE,
                    disk |-> Written(cleared, path, url, t.chunks, TRUE),
                    get |-> TRUE]

\* the directory when the process is killed inside download_file, during the
\* GET after n chunks: nothing is cleaned up
KilledDuringTransfer(d, url, path, probe, n) ==
    IF SkipRule(probe, d, path) THEN d
    ELSE Written(RemoveStale(d, path), path, url, n, FALSE)

MUXED_BASE == <<"https:", "", "cdn.c3voc.de", "relive", "38c3">>

\* f"{MUXED_BASE}{talk_id}/muxed.mp4"
MuxedUrl(talk_id) == MUXED_BASE \o <<ToString(talk_id), "muxed.mp4">>

\* DOWNLOAD_DIR / str(talk_id)
DestFolder(talk_id) == <<"download", ToString(talk_id)>>

\* dest_folder / filename
Join(folder, filename) == Append(folder, filename)

----------------------------------------------------------------------------
(* get_release_url_from_website(talk_title)                                  *)
(* The listing is None when the request raises a RequestException, else the  *)
(* sequence of its event-preview blocks; a block is [a |-> None] when its    *)
(* caption, h3 or link is missing, else [a |-> Some([href, text])].          *)

BASE_URL == <<"https:", "", "media.ccc.de">>

\* concatenation of two strings given by their "/"-separated segments
StrConcat(a, b) ==
    SubSeq(a, 1, Len(a) - 1) \o <<a[Len(a)] \o b[1]>> \o Tail(b)

\* str.lower(), character by character
LowerChar(c) ==
    CASE c = "T" -> "t"
      [] c = "A" -> "a"
      [] c = "L" -> "l"
      [] c = "K" -> "k"
      [] c = "B" -> "b"
      [] OTHER -> c

Lower(str) == [i \in 1..Len(str) |-> LowerChar(str[i])]

\* a in b, for strings
IsSubstring(a, b) ==
    \E i \in 0..(Len(b) - Len(a)) : SubSeq(b, i + 1, i + Len(a)) = a

\* positions of the blocks that reach the title comparison
LinkedBlocks(listing) == { i \in 1..Len(listing) : listing[i].a # None }

\* talk_title.lower() in link_text.lower()
TitleMatches(title, block) ==
    IsSubstring(Lower(title), Lower(Val(block.a).text))

\* result: [raised, url].  raised: talk_title.lower() on a title that is
\* None raises AttributeError, which the function does not catch; it is
\* evaluated at the first block that has a link.
GetReleaseUrlFromWebsite(title, listing) ==
    IF listing = None
    THEN [raised |-> FALSE, url |-> None]
    ELSE LET blocks == Val(listing)
             linked == LinkedBlocks(blocks)
         IN IF linked = {}
            THEN [raised |-> FALSE, url |-> None]
            ELSE IF title = None
            THEN [raised |-> TRUE, url |-> None]
            ELSE LET hits == { i \in linked : TitleMatches(Val(title), blocks[i]) }
                 IN IF hits = {}
                    THEN [raised |-> FALSE, url |-> None]
                    ELSE LET first == CHOOSE i \in hits : \A j \in hits : i <= j
                         IN [raised |-> FALSE,
                             url |-> Some(StrConcat(BASE_URL,
                                                    Val(blocks[first].a).href))]

----------------------------------------------------------------------------
(* parse_release_page(release_url)                                           *)
(* The page is None when the request raises a RequestException, else         *)
(* [persons, description, links, audio]: the link texts of <p class=persons> *)
(* (None without that element), the text of <p class=description> (None      *)
(* without it), the hrefs of the document's links in order, and the audio    *)
(* download buttons in order as [classes, href].  An href is [url, tokens,   *)
(* mp4]: tokens are the substrings the code looks for that occur in it, mp4  *)
(* tells whether it ends with ".mp4".                                        *)

RECURSIVE JoinComma(_)
\* ", ".join(names)
JoinComma(names) ==
    IF names = << >> THEN ""
    ELSE IF Len(names) = 1 THEN names[1]
    ELSE names[1] \o ", " \o JoinComma(Tail(names))

RECURSIVE LastLanguage(_, _)
\* for c in classes: if c in ["deu", "eng", "fra"]: language = c
LastLanguage(classes, language) ==
    IF classes = << >> THEN language
    ELSE LastLanguage(Tail(classes),
                      IF Head(classes) \in {"deu", "eng", "fra"}
                      THEN Head(classes) ELSE language)

\* f"audio_{language}_mp3" and the other two
AudioFileType(btn) ==
    LET language == LastLanguage(btn.classes, "None")
    IN IF ".mp3" \in btn.href.tokens THEN "audio_" \o language \o "_mp3"
       ELSE IF ".opus" \in btn.href.tokens THEN "audio_" \o language \o "_opus"
       ELSE "audio_" \o language \o "_other"

\* soup.find('a', href=lambda x: x and "h264-hd" in x and x.endswith(".mp4"))
HdLink(links) ==
    LET hits == { i \in 1..Len(links) :
                     "h264-hd" \in links[i].tokens /\ links[i].mp4 }
    IN IF hits = {} THEN None
       ELSE Some(links[CHOOSE i \in hits : \A j \in hits : i <= j].url)

EmptyBundle ==
    [authors |-> "", description |-> "", video_hd_url |-> None,
     audio_urls |-> << >>]

ParseReleasePage(page) ==
    IF page = None THEN EmptyBundle
    ELSE LET doc == Val(page)
             withHref == SelectSeq(doc.audio, LAMBDA b : b.href # None)
         IN [authors |-> IF doc.persons = None THEN ""
                         ELSE JoinComma(Val(doc.persons)),
             description |-> IF doc.description = None THEN ""
                             ELSE Val(doc.description),
             video_hd_url |-> HdLink(doc.links),
             audio_urls |-> [i \in 1..Len(withHref) |->
                               <<AudioFileType([classes |-> withHref[i].classes,
                                                href |-> Val(withHref[i].href)]),
                                 Val(withHref[i].href).url>>]]

----------------------------------------------------------------------------
(* The remote side of a pass: the feeds the index may serve, the listing    *)
(* pages and the release pages.                                              *)

TitleA == <<"T", "a", "l", "k">>
TitleB == <<"B", "a", "l", "k">>
ReleaseUrlA == <<"https:", "", "media.ccc.de", "v", "talk-a">>
ThumbRelative == <<"", "", "static.example", "t1.jpg">>
ThumbAbsolute == <<"https:", "", "static.example", "t2.jpg">>
HdUrl == <<"https:", "", "cdn.media.ccc.de", "h264-hd", "talk-a-hd.mp4">>
Mp3Url == <<"https:", "", "cdn.media.ccc.de", "mp3", "talk-a.mp3">>

\* only the id
EntryBare == [id |-> 1]

\* recorded, no release_url: the resolver is asked
EntryRecorded ==
    [id |-> 1, guid |-> "guid-1", title |-> TitleA, room |-> "Saal 1",
     status |-> "recorded", start |-> 100, duration |-> 60, mtime |-> 1,
     thumbnail |-> ThumbRelative]

\* released, with its release_url
EntryReleased ==
    [id |-> 1, guid |-> "guid-1", title |-> TitleA, room |-> "Saal 1",
     status |-> "released", start |-> 100, duration |-> 60,
     release_url |-> ReleaseUrlA, mtime |-> 2]

\* recorded, without title and release_url
EntryUntitled == [id |-> 1, status |-> "recorded", mtime |-> 2]

\* another talk, still live
EntryLive ==
    [id |-> 2, title |-> TitleB, status |-> "live", mtime |-> 1,
     thumbnail |-> ThumbAbsolute]

FeedEntries ==
    { EntryBare, EntryRecorded, EntryReleased, EntryUntitled, EntryLive }

RECURSIVE SeqsUpTo(_, _)
\* the sequences over S of length at most n
SeqsUpTo(S, n) ==
    IF n = 0 THEN { << >> }
    ELSE LET shorter == SeqsUpTo(S, n - 1)
         IN shorter \cup { Append(q, e) : q \in shorter, e \in S }

Listings ==
    { None,
      Some(<< [a |-> None] >>),
      Some(<< [a |-> None],
              [a |-> Some([href |-> <<"", "v", "talk-a">>,
                           text |-> <<"T", "A", "L", "K", " ", "x">>])],
              [a |-> Some([href |-> <<"", "v", "other">>,
                           text |-> <<"t", "a", "l", "k">>])] >>) }

Pages ==
    { None,
      Some([persons |-> Some(<<"Alice", "Bob">>),
            description |-> Some("About"),
            links |-> << [url |-> Mp3Url, tokens |-> {".mp3"}, mp4 |-> FALSE],
                         [url |-> HdUrl, tokens |-> {"h264-hd"}, mp4 |-> TRUE] >>,
            audio |-> << [classes |-> <<"btn", "download", "audio", "deu">>,
                          href |-> Some([url |-> Mp3Url, tokens |-> {".mp3"},
                                         mp4 |-> FALSE])],
                         [classes |-> <<"btn", "download", "audio">>,
                          href |-> None] >>]),
      Some([persons |-> None,
            description |-> Some("About"),
            links |-> << >>,
            audio |-> << >>]) }

\* feeds a stably available index may serve on every request
StableFeeds ==
    { << >>, <<EntryRecorded>>, <<EntryReleased>>, <<EntryLive, EntryRecorded>>,
      <<EntryRecorded, EntryReleased>>, <<EntryReleased, EntryBare>>,
      <<EntryLive, EntryUntitled>> }

\* body sizes of a stably available remote: a transfer can be interrupted
\* strictly inside a body only if the body has two chunks or more
StableSizes == 0..(MaxSize + 1)

\* remotes that answer every request, each time with the same result: the
\* feed, the listing page, the release page, and for every URL the
\* Content-Length the probe reports (None: no usable header) and the number
\* of chunks of the body, which is transferred to its end
StableRemotes ==
    { [feeds |-> {f}, listings |-> {l}, pages |-> {p}, probes |-> {pr},
       transfers |-> { [fate |-> "complete", chunks |-> n] }] :
         f \in StableFeeds, l \in Listings \ {None}, p \in Pages \ {None},
         pr \in {None} \cup { Some(n) : n \in StableSizes },
         n \in StableSizes }

\* data = r.json(): what the index may answer to this request
FeedsServed ==
    IF remote = None THEN SeqsUpTo(FeedEntries, MaxEntries - processed)
    ELSE Val(remote).feeds

\* what requests.get(index_url) of the resolver may answer
ListingsServed == IF remote = None THEN Listings ELSE Val(remote).listings

\* what requests.get(release_url) of the extractor may answer
PagesServed == IF remote = None THEN Pages ELSE Val(remote).pages

\* what the HEAD probe of a download may report
ProbesServed == IF remote = None THEN ProbeResults ELSE Val(remote).probes

\* how the GET of a download may go
TransfersServed == IF remote = None THEN Transfers ELSE Val(remote).transfers

----------------------------------------------------------------------------
(* main()                                                                    *)

\* the script is not running: before the first pass, after a pass that
\* returned, after a pass that ended with an uncaught exception, after the
\* process was killed
Resting == {"idle", "ended", "crashed", "killed"}

\* the locals of a process that starts or has exited
FreshLocals ==
    /\ entry' = << >>
    /\ talk_data' = << >>
    /\ extra_info' = << >>
    /\ audio_left' = << >>

\* a step of main() that does not call download_file
NoCall ==
    /\ asset' = << >>
    /\ ret' = FALSE
    /\ disk' = disk

\* faulty variant: the except branch does not return and the loop runs
FetchFeedFailProceeds ==
    /\ pc \in Resting
    /\ processed < MaxEntries
    /\ feedOk' = FALSE
    /\ data' \in { f \in SeqsUpTo(FeedEntries, MaxEntries - processed) : f # << >> }
    /\ pc' = "loop"
    /\ FreshLocals
    /\ NoCall
    /\ UNCHANGED <<processed, talks, files, fetchVars, upsertVars, resumeVars,
                   resolveVars>>

\* init_db(), then requests.get(JSON_URL) / raise_for_status() / r.json()
\* raises: the message is printed and main returns
FetchFeedFail ==
    /\ pc \in Resting
    /\ feedOk' = FALSE
    /\ data' = << >>
    /\ pc' = "ended"
    /\ FreshLocals
    /\ NoCall
    /\ UNCHANGED <<processed, talks, files, fetchVars, upsertVars, resumeVars,
                   resolveVars>>

\* init_db(), then the feed is fetched and parsed: data = r.json()
FetchFeedOk ==
    /\ pc \in Resting
    /\ feedOk' = TRUE
    /\ data' \in FeedsServed
    /\ pc' = "loop"
    /\ FreshLocals
    /\ NoCall
    /\ UNCHANGED <<processed, talks, files, fetchVars, upsertVars, resumeVars,
                   resolveVars>>

\* the talk_data dict built from an entry
TalkData(e) ==
    [id |-> e.id, guid |-> Get(e, "guid"), title |-> Get(e, "title"),
     room |-> Get(e, "room"), status |-> Get(e, "status"),
     start |-> Get(e, "start"), duration |-> Get(e, "duration"),
     release_url |-> Get(e, "release_url"),
     mtime |-> GetDefault(e, "mtime", 0)]

\* faulty variant: every status but "live" counts as recorded
IsNotLive(td) == td.status # Some("live")

\* talk_data["status"] in ["recorded", "released"]
IsRecorded(td) == td.status \in { Some("recorded"), Some("released") }

\* for entry in data: the next entry is taken and talk_data is built
NextEntry ==
    /\ pc = "loop"
    /\ data # << >>
    /\ entry' = Head(data)
    /\ data' = Tail(data)
    /\ processed' = IF remote = None THEN processed + 1 ELSE processed
    /\ talk_data' = TalkData(Head(data))
    /\ pc' = IF IsRecorded(talk_data') /\ ~Truthy(talk_data'.release_url)
             THEN "resolve" ELSE "upsert"
    /\ NoCall
    /\ UNCHANGED <<feedOk, extra_info, audio_left, talks, files, fetchVars,
                   upsertVars, resumeVars,
                   resolveVars>>

\* the loop is over: conn.close(), print("Fertig.")
FinishPass ==
    /\ pc = "loop"
    /\ data = << >>
    /\ pc' = "ended"
    /\ FreshLocals
    /\ NoCall
    /\ UNCHANGED <<processed, feedOk, data, talks, files, fetchVars, upsertVars, resumeVars,
                   resolveVars>>

\* scraped_url = get_release_url_from_website(talk_data["title"]); an
\* exception it does not catch ends the process
Resolve ==
    /\ pc = "resolve"
    /\ \E listing \in ListingsServed :
         LET r == GetReleaseUrlFromWebsite(talk_data.title, listing)
         IN IF r.raised
            THEN /\ pc' = "crashed"
                 /\ data' = << >>
                 /\ FreshLocals
            ELSE /\ pc' = "upsert"
                 /\ talk_data' = IF Truthy(r.url)
                                 THEN [talk_data EXCEPT !.release_url = r.url]
                                 ELSE talk_data
                 /\ UNCHANGED <<data, entry, extra_info, audio_left>>
    /\ NoCall
    /\ UNCHANGED <<processed, feedOk, talks, files, fetchVars, upsertVars, resumeVars,
                   resolveVars>>

\* upsert_talk(conn, talk_data)
Upsert ==
    /\ pc = "upsert"
    /\ talks' = UpsertTalk(talks, talk_data)
    /\ pc' = "muxed"
    /\ NoCall
    /\ UNCHANGED <<processed, feedOk, data, entry, talk_data, extra_info,
                   audio_left, files, fetchVars, upsertVars, resumeVars,
                   resolveVars>>

\* faulty variant: the row is recorded whatever download_file returned
RecordedAlways(f, success, talk_id, a) ==
    InsertOrIgnoreFile(f, talk_id, a.file_type, a.url, a.path)

\* if success: insert_or_ignore_file(conn, talk_id, file_type, url, path)
Recorded(f, success, talk_id, a) ==
    IF success
    THEN InsertOrIgnoreFile(f, talk_id, a.file_type, a.url, a.path)
    ELSE f

\* faulty variant: a failed download ends the pass
ContinueAtAbortsOnFailure(next, success) == IF success THEN next ELSE "crashed"

\* main() goes on with its next statement whatever download_file returned
ContinueAt(next, success) == next

\* what download_file(url, path) may return and leave in the directory d,
\* over every probe result and every course of the GET
DownloadResults(d, url, path) ==
    { DownloadFile(d, url, path, probe, t) :
         probe \in ProbesServed, t \in TransfersServed }

\* success = download_file(url, path); if success: insert_or_ignore_file(...)
\* and main() goes on at `next`
Download(a, next) ==
    \E r \in DownloadResults(disk, a.url, a.path) :
       /\ asset' = a
       /\ ret' = r.ret
       /\ disk' = r.disk
       /\ files' = Recorded(files, r.ret, talk_data.id, a)
       /\ pc' = ContinueAt(next, r.ret)

\* muxed_url, muxed_path
MuxedAsset ==
    [file_type |-> "muxed", url |-> MuxedUrl(talk_data.id),
     path |-> Join(DestFolder(talk_data.id), "muxed.mp4")]

\* 3a: the muxed recording
Muxed ==
    /\ pc = "muxed"
    /\ IF IsRecorded(talk_data)
       THEN Download(MuxedAsset, "thumb")
       ELSE /\ pc' = "thumb"
            /\ NoCall
            /\ files' = files
    /\ UNCHANGED <<processed, feedOk, data, entry, talk_data, extra_info,
                   audio_left, talks, fetchVars, upsertVars, resumeVars,
                   resolveVars>>

\* thumbnail_url.startswith("//")
StartsWithSlashSlash(u) == Len(u) >= 3 /\ u[1] = "" /\ u[2] = ""

\* "https:" + thumbnail_url when it is protocol-relative
ThumbnailUrl(u) ==
    IF StartsWithSlashSlash(u) THEN [u EXCEPT ![1] = "https:" \o @] ELSE u

\* thumbnail_url, thumb_path
ThumbAsset ==
    [file_type |-> "thumbnail", url |-> ThumbnailUrl(entry.thumbnail),
     path |-> Join(DestFolder(talk_data.id), "thumb.jpg")]

\* 3b: the thumbnail
Thumb ==
    /\ pc = "thumb"
    /\ IF Truthy(Get(entry, "thumbnail"))
       THEN Download(ThumbAsset, "release")
       ELSE /\ pc' = "release"
            /\ NoCall
            /\ files' = files
    /\ UNCHANGED <<processed, feedOk, data, entry, talk_data, extra_info,
                   audio_left, talks, fetchVars, upsertVars, resumeVars,
                   resolveVars>>

\* 3c: extra_info = parse_release_page(talk_data["release_url"])
Release ==
    /\ pc = "release"
    /\ IF IsRecorded(talk_data) /\ Truthy(talk_data.release_url)
       THEN /\ \E page \in PagesServed : extra_info' = ParseReleasePage(page)
            /\ pc' = "enrich"
       ELSE /\ pc' = "loop"
            /\ extra_info' = extra_info
    /\ NoCall
    /\ UNCHANGED <<processed, feedOk, data, entry, talk_data, audio_left,
                   talks, files, fetchVars, upsertVars, resumeVars,
                   resolveVars>>

\* UPDATE talks SET authors = ?, description = ? WHERE id = ?
UpdateEnrichment(t, id, authors, description) ==
    IF id \in DOMAIN t
    THEN [t EXCEPT ![id].authors = Some(authors),
                   ![id].description = Some(description)]
    ELSE t

\* faulty variant: the UPDATE is not guarded
HasEnrichmentAlways(info) == TRUE

\* if extra_info["authors"] or extra_info["description"]
HasEnrichment(info) == info.authors # "" \/ info.description # ""

\* the guarded UPDATE of authors and description
Enrich ==
    /\ pc = "enrich"
    /\ talks' = IF HasEnrichment(extra_info)
                THEN UpdateEnrichment(talks, talk_data.id, extra_info.authors,
                                      extra_info.description)
                ELSE talks
    /\ pc' = "hd"
    /\ NoCall
    /\ UNCHANGED <<processed, feedOk, data, entry, talk_data, extra_info,
                   audio_left, files, fetchVars, upsertVars, resumeVars,
                   resolveVars>>

\* hd_url, hd_path
HdAsset ==
    [file_type |-> "video_hd", url |-> Val(extra_info.video_hd_url),
     path |-> Join(DestFolder(talk_data.id), "video_hd.mp4")]

\* the HD video; afterwards the loop over audio_urls starts
Hd ==
    /\ pc = "hd"
    /\ audio_left' = extra_info.audio_urls
    /\ IF Truthy(extra_info.video_hd_url)
       THEN Download(HdAsset, "audio")
       ELSE /\ pc' = "audio"
            /\ NoCall
            /\ files' = files
    /\ UNCHANGED <<processed, feedOk, data, entry, talk_data, extra_info,
                   talks, fetchVars, upsertVars, resumeVars,
                   resolveVars>>

\* filename = url.split("/")[-1]
FileName(url) == url[Len(url)]

\* faulty variant: the loop takes the audio files from the end of the list
AudioAssetFromEnd ==
    LET last == audio_left[Len(audio_left)]
    IN [file_type |-> last[1], url |-> last[2],
        path |-> Join(DestFolder(talk_data.id), FileName(last[2]))]

\* (filetype, url) of the next audio file, audio_path
AudioAsset ==
    [file_type |-> Head(audio_left)[1], url |-> Head(audio_left)[2],
     path |-> Join(DestFolder(talk_data.id), FileName(Head(audio_left)[2]))]

\* for (filetype, url) in extra_info["audio_urls"]; the entry is done when
\* the list is exhausted
Audio ==
    /\ pc = "audio"
    /\ IF audio_left = << >>
       THEN /\ pc' = "loop"
            /\ NoCall
            /\ UNCHANGED <<files, audio_left>>
       ELSE /\ Download(AudioAsset, "audio")
            /\ audio_left' = Tail(audio_left)
    /\ UNCHANGED <<processed, feedOk, data, entry, talk_data, extra_info,
                   talks, fetchVars, upsertVars, resumeVars,
                   resolveVars>>

EmptyTable == << >>

MainIdle ==
    /\ pc = "idle"
    /\ processed = 0
    /\ feedOk = FALSE
    /\ data = << >>
    /\ entry = << >>
    /\ talk_data = << >>
    /\ extra_info = << >>
    /\ audio_left = << >>
    /\ talks = EmptyTable
    /\ files = << >>

CallIdle ==
    /\ asset = << >>
    /\ ret = FALSE
    /\ disk = EmptyTable

FetchIdle ==
    /\ expected_size = None
    /\ transfer = None
    /\ fpc = "off"

UpsertIdle ==
    /\ snap1 = << >>
    /\ snap2 = << >>
    /\ cat0 = EmptyTable
    /\ catSeq = EmptyTable
    /\ catOne = EmptyTable
    /\ catTwo = EmptyTable
    /\ hpc = "off"

ResumeIdle ==
    /\ remote = None
    /\ ref = None
    /\ killed = None

ResolveIdle ==
    /\ ask = << >>
    /\ answer = << >>

Init ==
    MainIdle /\ CallIdle /\ FetchIdle /\ UpsertIdle /\ ResumeIdle /\ ResolveIdle

Next ==
    \/ FetchFeedOk
    \/ FetchFeedFail
    \/ NextEntry
    \/ FinishPass
    \/ Resolve
    \/ Upsert
    \/ Muxed
    \/ Thumb
    \/ Release
    \/ Enrich
    \/ Hd
    \/ Audio

Spec == Init /\ [][Next]_vars

----------------------------------------------------------------------------
(* Experiment on upsert_talk: upsert(S1) then upsert(S2), against upsert(S1) *)
(* alone and upsert(S2) alone, from the same starting catalog.              *)

MtimeValues == (0 - 1)..MaxMtime

\* talk_data dicts with id 1; the columns vary in three groups
Snapshots ==
    { [id |-> 1, guid |-> g[1], title |-> g[2],
       room |-> r[1], status |-> r[2], start |-> r[3], duration |-> r[4],
       release_url |-> u, mtime |-> m] :
         g \in { <<None, None>>, <<Some("guid-1"), Some(TitleA)>> },
         r \in { <<None, None, None, None>>,
                 <<Some("Saal 1"), Some("released"), Some(100), Some(60)>> },
         u \in { None, Some(ReleaseUrlA) },
         m \in MtimeValues }

\* starting catalogs: empty, or talk 1 stored by an earlier pass and enriched
StartCatalogs ==
    { EmptyTable } \cup
    { (1 :> [InsertedRow([id |-> 1, guid |-> Some("guid-0"), title |-> None,
                           room |-> Some("Saal 0"), status |-> Some("live"),
                           start |-> Some(50), duration |-> None,
                           release_url |-> None, mtime |-> m])
              EXCEPT !.authors = Some("Alice")]) : m \in MtimeValues }

ApplyFirst ==
    /\ hpc = "start"
    /\ catSeq' = UpsertTalk(catSeq, snap1)
    /\ catOne' = UpsertTalk(catOne, snap1)
    /\ hpc' = "first"
    /\ UNCHANGED <<snap1, snap2, catTwo, cat0, mainVars, callVars, fetchVars,
                   resumeVars, resolveVars>>

ApplySecond ==
    /\ hpc = "first"
    /\ catSeq' = UpsertTalk(catSeq, snap2)
    /\ catTwo' = UpsertTalk(catTwo, snap2)
    /\ hpc' = "second"
    /\ UNCHANGED <<snap1, snap2, catOne, cat0, mainVars, callVars, fetchVars,
                   resumeVars, resolveVars>>

InitUpsert ==
    /\ MainIdle
    /\ CallIdle
    /\ FetchIdle
    /\ ResumeIdle
    /\ ResolveIdle
    /\ snap1 \in Snapshots
    /\ snap2 \in Snapshots
    /\ cat0 \in StartCatalogs
    /\ catSeq = cat0
    /\ catOne = cat0
    /\ catTwo = cat0
    /\ hpc = "start"

NextUpsert == ApplyFirst \/ ApplySecond

SpecUpsert == InitUpsert /\ [][NextUpsert]_vars

----------------------------------------------------------------------------
(* Experiment on download_file: repeated calls on a few (url, destination)  *)
(* pairs, with every probe result and every course of the GET, and the      *)
(* process being killed in the middle of a transfer (which is how a partial *)
(* file comes to exist before a later call).                                *)

MirrorUrl == <<"https:", "", "mirror.example", "muxed.mp4">>

FetchArgs ==
    { [file_type |-> "muxed", url |-> MuxedUrl(1),
       path |-> Join(DestFolder(1), "muxed.mp4")],
      [file_type |-> "muxed", url |-> MirrorUrl,
       path |-> Join(DestFolder(1), "muxed.mp4")],
      [file_type |-> "muxed", url |-> MuxedUrl(2),
       path |-> Join(DestFolder(2), "muxed.mp4")] }

\* one call of download_file that returns
CallFetch ==
    /\ \E a \in FetchArgs, probe \in ProbeResults, t \in Transfers :
         LET r == DownloadFile(disk, a.url, a.path, probe, t)
         IN /\ asset' = a
            /\ expected_size' = probe
            /\ transfer' = IF r.get THEN Some(t) ELSE None
            /\ ret' = r.ret
            /\ disk' = r.disk
    /\ fpc' = "returned"
    /\ UNCHANGED <<mainVars, upsertVars, resumeVars,
                   resolveVars>>

\* one call of download_file during which the process is killed
KilledFetch ==
    /\ \E a \in FetchArgs, probe \in ProbeResults, n \in 0..MaxSize :
         /\ asset' = a
         /\ expected_size' = probe
         /\ transfer' = None
         /\ ret' = FALSE
         /\ disk' = KilledDuringTransfer(disk, a.url, a.path, probe, n)
    /\ fpc' = "killed"
    /\ UNCHANGED <<mainVars, upsertVars, resumeVars,
                   resolveVars>>

InitFetch == Init

NextFetch == CallFetch \/ KilledFetch

SpecFetch == InitFetch /\ [][NextFetch]_vars

----------------------------------------------------------------------------
(* Experiment on re-running: against a stably available remote, one pass    *)
(* runs uninterrupted from the empty catalog and directory and its result   *)
(* is kept in ref; then, from the empty catalog and directory again, passes *)
(* run of which one may be interrupted: the process is killed between two   *)
(* steps of main() or inside download_file.                                 *)

\* the asset whose download_file call is due at the current position, None
\* when the step makes no call
DueAsset ==
    CASE pc = "muxed" /\ IsRecorded(talk_data) -> Some(MuxedAsset)
      [] pc = "thumb" /\ Truthy(Get(entry, "thumbnail")) -> Some(ThumbAsset)
      [] pc = "hd" /\ Truthy(extra_info.video_hd_url) -> Some(HdAsset)
      [] pc = "audio" /\ audio_left # << >> -> Some(AudioAsset)
      [] OTHER -> None

\* the directory when the process is killed inside download_file after the
\* stale file was removed and before open(dest_path, 'wb')
KilledBeforeTransfer(d, path, probe) ==
    IF SkipRule(probe, d, path) THEN d ELSE RemoveStale(d, path)

\* the directory when the process is killed inside download_file after n
\* chunks of the transfer t were written (n = t.chunks: after the last write
\* and before main() records the file)
KilledAfterChunks(d, url, path, probe, t, n) ==
    IF SkipRule(probe, d, path) THEN d
    ELSE Written(RemoveStale(d, path), path, url, n,
                 t.fate = "complete" /\ n = t.chunks)

\* the process ends without running any further statement
ProcessKilled ==
    /\ pc \notin Resting
    /\ ref # None
    /\ killed = None
    /\ pc' = "killed"
    /\ data' = << >>
    /\ FreshLocals
    /\ asset' = << >>
    /\ ret' = FALSE
    /\ UNCHANGED <<processed, feedOk, talks, files, fetchVars, upsertVars,
                   remote, ref, resolveVars>>

\* killed between two steps of main()
KilledBetweenSteps ==
    /\ ProcessKilled
    /\ disk' = disk
    /\ killed' = Some([at |-> pc, disk |-> disk'])

\* killed inside the download_file call that is due
KilledInDownload ==
    /\ ProcessKilled
    /\ DueAsset # None
    /\ \E probe \in ProbesServed, t \in TransfersServed :
         LET a == Val(DueAsset)
         IN \/ disk' = KilledBeforeTransfer(disk, a.path, probe)
            \/ \E n \in 0..t.chunks :
                  disk' = KilledAfterChunks(disk, a.url, a.path, probe, t, n)
    /\ killed' = Some([at |-> pc, disk |-> disk'])

\* the uninterrupted pass has ended: its result is kept, and the catalog and
\* the directory are emptied for the runs that are compared with it
KeepReference ==
    /\ pc \in {"ended", "crashed"}
    /\ ref = None
    /\ ref' = Some([talks |-> talks, files |-> files, disk |-> disk])
    /\ talks' = EmptyTable
    /\ files' = << >>
    /\ disk' = EmptyTable
    /\ pc' = "idle"
    /\ feedOk' = FALSE
    /\ UNCHANGED <<processed, data, entry, talk_data, extra_info, audio_left,
                   asset, ret, fetchVars, upsertVars, remote, killed,
                   resolveVars>>

\* the script is started; the uninterrupted pass is started once
Restart ==
    /\ ref = None => pc = "idle"
    /\ FetchFeedOk

InitResume ==
    /\ MainIdle
    /\ CallIdle
    /\ FetchIdle
    /\ UpsertIdle
    /\ ResolveIdle
    /\ remote \in { Some(r) : r \in StableRemotes }
    /\ ref = None
    /\ killed = None

NextResume ==
    \/ Restart
    \/ NextEntry
    \/ FinishPass
    \/ Resolve
    \/ Upsert
    \/ Muxed
    \/ Thumb
    \/ Release
    \/ Enrich
    \/ Hd
    \/ Audio
    \/ KeepReference
    \/ KilledBetweenSteps
    \/ KilledInDownload

SpecResume == InitResume /\ [][NextResume]_vars

----------------------------------------------------------------------------
(* Experiment on the steps of one pass: a single pass from the empty        *)
(* catalog and directory, over feeds of one or two entries, with a release  *)
(* page that offers two audio files besides the HD video, and with every    *)
(* outcome of every request.                                                *)

OpusUrl == <<"https:", "", "cdn.media.ccc.de", "opus", "talk-a.opus">>

RichPage ==
    Some([persons |-> Some(<<"Alice">>),
          description |-> None,
          links |-> << [url |-> HdUrl, tokens |-> {"h264-hd"}, mp4 |-> TRUE],
                       [url |-> Mp3Url, tokens |-> {".mp3"}, mp4 |-> FALSE],
                       [url |-> OpusUrl, tokens |-> {".opus"}, mp4 |-> FALSE] >>,
          audio |-> << [classes |-> <<"btn", "download", "audio", "deu">>,
                        href |-> Some([url |-> Mp3Url, tokens |-> {".mp3"},
                                       mp4 |-> FALSE])],
                       [classes |-> <<"btn", "download", "audio">>,
                        href |-> None],
                       [classes |-> <<"btn", "download", "audio", "eng">>,
                        href |-> Some([url |-> OpusUrl, tokens |-> {".opus"},
                                       mp4 |-> FALSE])] >>])

OrderRemote ==
    [feeds |-> { <<EntryReleased>>, <<EntryRecorded>>, <<EntryUntitled>>,
                 <<EntryLive, EntryReleased>>, <<EntryReleased, EntryLive>>,
                 <<EntryRecorded, EntryBare>>, <<EntryBare, EntryRecorded>> },
     listings |-> Listings,
     pages |-> {None, RichPage},
     probes |-> ProbeResults,
     transfers |-> Transfers]

\* the script is started once
StartOnce ==
    /\ pc = "idle"
    /\ FetchFeedOk

InitOrder ==
    /\ MainIdle
    /\ CallIdle
    /\ FetchIdle
    /\ UpsertIdle
    /\ ResolveIdle
    /\ remote = Some(OrderRemote)
    /\ ref = None
    /\ killed = None

NextOrder ==
    \/ StartOnce
    \/ NextEntry
    \/ FinishPass
    \/ Resolve
    \/ Upsert
    \/ Muxed
    \/ Thumb
    \/ Release
    \/ Enrich
    \/ Hd
    \/ Audio

SpecOrder == InitOrder /\ [][NextOrder]_vars

----------------------------------------------------------------------------
(* Experiment on get_release_url_from_website: one call, for each title     *)
(* main() may pass (entry.get("title"), None included) and each listing.    *)

PreviewBlocks ==
    { [a |-> None],
      [a |-> Some([href |-> <<"", "v", "talk-a">>,
                   text |-> <<"T", "A", "L", "K", " ", "x">>])],
      [a |-> Some([href |-> <<"", "v", "other">>,
                   text |-> <<"t", "a", "l", "k">>])],
      [a |-> Some([href |-> <<"", "v", "balk">>,
                   text |-> <<"B", "a", "l", "k">>])] }

AskedTitles ==
    { None, Some(EmptyStr), Some(TitleA), Some(TitleB),
      Some(<<"a", "L", "k">>), Some(<<"Z">>) }

AskedListings ==
    { None } \cup { Some(l) : l \in SeqsUpTo(PreviewBlocks, MaxPreviews) }

\* the call: it returns a URL or None, or raises
AskResolver ==
    /\ ask # << >>
    /\ answer = << >>
    /\ answer' = GetReleaseUrlFromWebsite(ask.title, ask.listing)
    /\ UNCHANGED <<ask, mainVars, callVars, fetchVars, upsertVars, resumeVars>>

InitResolve ==
    /\ MainIdle
    /\ CallIdle
    /\ FetchIdle
    /\ UpsertIdle
    /\ ResumeIdle
    /\ ask \in [title : AskedTitles, listing : AskedListings]
    /\ answer = << >>

NextResolve == AskResolver

SpecResolve == InitResolve /\ [][NextResolve]_vars

----------------------------------------------------------------------------
(* Claims about upsert_talk, checked under SpecUpsert                        *)

(* C1: for snapshots S1, S2 of the same talk with S2.mtime <= S1.mtime,     *)
(* upsert(S1) then upsert(S2) leaves the catalog exactly as upsert(S1)      *)
(* alone leaves it: the stale S2 changes no column.                         *)
C1_StaleSnapshotHasNoEffect ==
    (hpc = "second" /\ snap2.mtime <= snap1.mtime) => catSeq = catOne

\* a stale S2 that differs from what S1 stored, applied to a row S1 wrote
C1_Witness ==
    /\ hpc = "second"
    /\ snap2.mtime <= snap1.mtime
    /\ 1 \in DOMAIN catSeq
    /\ catSeq[1].last_mtime = snap1.mtime
    /\ catSeq[1].guid = snap1.guid
    /\ snap2.guid # snap1.guid
    /\ snap2.release_url # snap1.release_url

(* C2: for snapshots S1, S2 of the same talk with S2.mtime > S1.mtime, on   *)
(* an empty catalog upsert(S1) then upsert(S2) stores the same row, in      *)
(* every column including last_mtime, as upsert(S2) alone.                  *)
C2_NewerSnapshotWins ==
    (hpc = "second" /\ cat0 = EmptyTable /\ snap2.mtime > snap1.mtime)
        => catSeq = catTwo

\* S1 was inserted, then S2 with other columns replaced it
C2_Witness ==
    /\ hpc = "second"
    /\ cat0 = EmptyTable
    /\ snap2.mtime > snap1.mtime
    /\ snap2.guid # snap1.guid
    /\ snap2.room # snap1.room
    /\ snap2.release_url # snap1.release_url
    /\ catSeq[1].last_mtime = snap2.mtime
    /\ catSeq[1].guid = snap2.guid

----------------------------------------------------------------------------
(* Claims about the passes, checked under Spec                               *)

SameTriple(r, talk_id, a) ==
    /\ r.talk_id = talk_id
    /\ r.file_type = a.file_type
    /\ r.file_url = a.url

(* C3: in every state reached by any sequence of passes, re-runs included,  *)
(* no two rows of files have the same (talk_id, file_type, file_url).       *)
C3_FileTripleUnique ==
    \A i, j \in 1..Len(files) :
        ( /\ files[i].talk_id = files[j].talk_id
          /\ files[i].file_type = files[j].file_type
          /\ files[i].file_url = files[j].file_url ) => i = j

\* a download succeeded for an asset whose row an earlier step had inserted,
\* and a later row exists: insert_or_ignore_file met an existing triple
C3_Witness ==
    /\ asset # << >>
    /\ ret
    /\ Len(files) >= 2
    /\ \E i \in 1..(Len(files) - 1) : SameTriple(files[i], talk_data.id, asset)

(* C4: a row of files is inserted only in the step in which download_file   *)
(* returned success for that row's URL while that talk's entry is being     *)
(* processed, and a download_file call that returns failure inserts no row. *)
C4_RowOnlyAfterSuccess ==
    [][ /\ (files' # files) =>
              /\ asset' # << >>
              /\ ret'
              /\ files' = Append(files,
                                 [id |-> Len(files) + 1,
                                  talk_id |-> talk_data.id,
                                  file_type |-> asset'.file_type,
                                  file_url |-> asset'.url,
                                  local_path |-> asset'.path])
        /\ (asset' # << >> /\ ~ret') => files' = files ]_vars

\* the row of the asset just downloaded is the newest row
C4_Witness ==
    /\ asset # << >>
    /\ ret
    /\ files # << >>
    /\ SameTriple(files[Len(files)], talk_data.id, asset)
    /\ Exists(disk, asset.path)

(* C8: when the feed fetch fails, the pass ends without processing any      *)
(* entry, and the rows of talks and files and the download directory are    *)
(* exactly as before the pass.                                              *)
C8_FeedFailureChangesNothing ==
    /\ [](~feedOk => pc \in Resting)
    /\ [][ (pc \in Resting /\ ~feedOk') =>
              /\ pc' = "ended"
              /\ processed' = processed
              /\ talks' = talks
              /\ files' = files
              /\ disk' = disk ]_vars

\* a pass whose feed fetch failed, after a pass that filled the catalog and
\* the directory
C8_Witness ==
    /\ pc = "ended"
    /\ ~feedOk
    /\ talks # EmptyTable
    /\ files # << >>
    /\ disk # EmptyTable

(* C9: once the feed has been fetched, no failure ends the pass early: the  *)
(* pass never ends with an uncaught exception, whatever fields besides id   *)
(* the entries lack and whatever the resolver, extractor and downloads do.  *)
C9_PassNeverAborts == pc # "crashed"

\* where main() continues after the download of an asset of this type
FollowingStep(file_type) ==
    CASE file_type = "muxed" -> "thumb"
      [] file_type = "thumbnail" -> "release"
      [] OTHER -> "audio"

(* C10: when the download of an asset fails, the pass goes on with the next *)
(* step of the same entry (muxed: thumbnail; thumbnail: release page;       *)
(* video_hd: the audio assets; an audio asset: the next audio asset) and    *)
(* the entries that follow in the feed remain to be processed.              *)
C10_FailedDownloadContinues ==
    [][ (asset' # << >> /\ ~ret') =>
            /\ pc' = FollowingStep(asset'.file_type)
            /\ data' = data
            /\ entry' = entry
            /\ talk_data' = talk_data
            /\ (pc = "audio" => audio_left' = Tail(audio_left)) ]_vars

\* the HD video failed; audio assets and another entry are still to come
C10_Witness ==
    /\ asset # << >>
    /\ ~ret
    /\ asset.file_type = "video_hd"
    /\ pc = "audio"
    /\ audio_left # << >>
    /\ data # << >>

----------------------------------------------------------------------------
(* Claims about download_file, checked under SpecFetch                       *)

Dest == asset.path

(* C5: whenever the probe reported an expected size (any non-negative       *)
(* integer, 0 included) and a file of exactly that size exists at the       *)
(* destination, download_file returns success without issuing the GET and   *)
(* without deleting or rewriting the file.                                  *)
C5_SkipWhenSizeMatches ==
    [][ ( /\ fpc' = "returned"
          /\ expected_size' # None
          /\ Exists(disk, asset'.path)
          /\ disk[asset'.path].size = Val(expected_size') )
        => ( /\ ret'
             /\ transfer' = None
             /\ disk' = disk ) ]_vars

(* C6 as stated: whenever download_file returns, the destination holds no   *)
(* file or a file whose size equals the expected size when one is known.    *)
C6_NoFileOrExpectedSize ==
    fpc = "returned" =>
        \/ ~Exists(disk, Dest)
        \/ expected_size = None
        \/ disk[Dest].size = Val(expected_size)

(* C6 amended: whenever download_file returns failure the destination holds *)
(* no file; whenever it returns success the destination holds a file that   *)
(* either has exactly the known expected size or holds the whole body of a  *)
(* GET of the URL that ran to its end, whatever size the probe reported.    *)
C6_NoFileOrCompletedTransfer ==
    fpc = "returned" =>
        /\ ~ret => ~Exists(disk, Dest)
        /\ ret => /\ Exists(disk, Dest)
                  /\ \/ /\ expected_size # None
                        /\ disk[Dest].size = Val(expected_size)
                     \/ /\ disk[Dest].whole
                        /\ disk[Dest].content = asset.url

\* a completed transfer whose size differs from the known expected size
C6_Witness ==
    /\ fpc = "returned"
    /\ ret
    /\ expected_size # None
    /\ Val(expected_size) # 0
    /\ transfer # None
    /\ Exists(disk, Dest)
    /\ disk[Dest].whole
    /\ disk[Dest].size # Val(expected_size)

(* C7: whenever download_file returns failure (the GET could not connect,   *)
(* timed out, answered a non-success status, or broke in the middle of the  *)
(* transfer after chunks were written), no file exists at the destination.  *)
C7_FailureLeavesNoFile ==
    (fpc = "returned" /\ ~ret) => ~Exists(disk, Dest)

\* a transfer that broke after a chunk had been written
C7_Witness ==
    /\ fpc = "returned"
    /\ ~ret
    /\ transfer # None
    /\ Val(transfer).fate = "broken"
    /\ Val(transfer).chunks > 0
    /\ ~Exists(disk, Dest)

----------------------------------------------------------------------------
(* Claims about the resolver inside a pass, checked under Spec               *)

\* the entry being processed had the resolver invoked and it returned a URL:
\* the status is recorded or released, the feed gave no release_url, and
\* talk_data carries one
ResolverReturnedUrl ==
    /\ IsRecorded(talk_data)
    /\ ~Truthy(Get(entry, "release_url"))
    /\ Truthy(talk_data.release_url)

(* C11 as stated: whenever the resolver was invoked for an entry and        *)
(* returned a URL, after the entry's upsert the stored release_url of the   *)
(* talk is the resolved URL, whether the row is new or existed with any     *)
(* stored mtime.                                                            *)
C11_ResolvedUrlStored ==
    [][ (pc = "upsert" /\ ResolverReturnedUrl)
        => /\ talk_data.id \in DOMAIN talks'
           /\ talks'[talk_data.id].release_url = talk_data.release_url ]_vars

(* C11 amended: whenever the resolver was invoked for an entry and returned *)
(* a URL, after the entry's upsert the stored release_url is the resolved   *)
(* URL if the row is new or its stored mtime is strictly less than the      *)
(* entry's mtime; if the stored mtime is greater or equal, the upsert       *)
(* leaves the table talks exactly as it was.                                *)
C11_ResolvedUrlStoredWhenNewer ==
    [][ (pc = "upsert" /\ ResolverReturnedUrl)
        => IF \/ talk_data.id \notin DOMAIN talks
              \/ talk_data.mtime > talks[talk_data.id].last_mtime
           THEN /\ talk_data.id \in DOMAIN talks'
                /\ talks'[talk_data.id].release_url = talk_data.release_url
           ELSE talks' = talks ]_vars

\* the second entry of talk 1 was resolved and its URL is stored
C11_Witness ==
    /\ pc = "muxed"
    /\ processed = 2
    /\ ResolverReturnedUrl
    /\ talks[talk_data.id].release_url = talk_data.release_url
    /\ talks[talk_data.id].last_mtime = talk_data.mtime

----------------------------------------------------------------------------
(* Claims about the order of the steps, checked under SpecOrder              *)

\* the steps of one entry
EntrySteps ==
    {"resolve", "upsert", "muxed", "thumb", "release", "enrich", "hd", "audio"}

\* the positions that may follow a step of an entry
StepsAfter(step) ==
    CASE step = "resolve" -> {"upsert", "crashed"}
      [] step = "upsert" -> {"muxed"}
      [] step = "muxed" -> {"thumb"}
      [] step = "thumb" -> {"release"}
      [] step = "release" -> {"enrich", "loop"}
      [] step = "enrich" -> {"hd"}
      [] step = "hd" -> {"audio"}
      [] step = "audio" -> {"audio", "loop"}

\* the file type fetched at a step; at "audio", that of the head of the list
TypeFetchedAt(step) ==
    CASE step = "muxed" -> "muxed"
      [] step = "thumb" -> "thumbnail"
      [] step = "hd" -> "video_hd"
      [] step = "audio" -> Head(audio_left)[1]
      [] OTHER -> "none"

(* C15: within a pass the steps of one entry occur in the order resolve (if *)
(* due), upsert, muxed fetch, thumbnail fetch, page extraction, enrichment  *)
(* update, HD video fetch, audio fetches in list order; a row of files is   *)
(* inserted only in the step of its own successful fetch; and the next feed *)
(* entry is taken, in feed order, only after the last step of the entry     *)
(* before it.                                                               *)
C15_StepsInFixedOrder ==
    [][ /\ pc \in EntrySteps =>
             /\ pc' \in StepsAfter(pc)
             /\ pc' \in EntrySteps \cup {"loop"} =>
                    /\ entry' = entry
                    /\ data' = data
                    /\ talk_data'.id = talk_data.id
        /\ (pc = "loop" /\ pc' \in EntrySteps) =>
             /\ pc' \in {"resolve", "upsert"}
             /\ entry' = Head(data)
             /\ data' = Tail(data)
        /\ (pc = "audio" /\ pc' = "loop") => audio_left = << >>
        /\ talks' # talks => pc \in {"upsert", "enrich"}
        /\ extra_info' # extra_info => pc \in {"release"} \/ pc' \in Resting
        /\ pc = "hd" => audio_left' = extra_info.audio_urls
        /\ asset' # << >> =>
             /\ pc \in {"muxed", "thumb", "hd", "audio"}
             /\ asset'.file_type = TypeFetchedAt(pc)
             /\ pc = "audio" =>
                    /\ asset'.url = Head(audio_left)[2]
                    /\ audio_left' = Tail(audio_left)
        /\ files' # files =>
             /\ asset' # << >>
             /\ ret'
             /\ files' = Append(files, [id |-> Len(files) + 1,
                                        talk_id |-> talk_data.id,
                                        file_type |-> asset'.file_type,
                                        file_url |-> asset'.url,
                                        local_path |-> asset'.path]) ]_vars

\* both audio files of the page were fetched, the first of the list first,
\* and the next entry of the feed has not been touched
C15_Witness ==
    /\ pc = "audio"
    /\ audio_left = << >>
    /\ asset # << >>
    /\ asset.url = OpusUrl
    /\ ret
    /\ data # << >>
    /\ Len(files) >= 2
    /\ files[Len(files)].file_url = OpusUrl
    /\ files[Len(files) - 1].file_url = Mp3Url
    /\ DOMAIN talks = {1}

----------------------------------------------------------------------------
(* Claims about get_release_url_from_website, checked under SpecResolve      *)

\* the display text of the block contains the title, letter case ignored
DisplayTextContains(block, title) ==
    /\ block.a # None
    /\ title # None
    /\ LET text == Val(block.a).text
           t == Val(title)
       IN \E k \in 0..(Len(text) - Len(t)) :
             \A m \in 1..Len(t) : LowerChar(text[k + m]) = LowerChar(t[m])

(* C14: get_release_url_from_website(title) returns None when the listing   *)
(* fetch fails or when no listed entry's display text contains the title as *)
(* a case-insensitive substring; otherwise it returns the listing origin    *)
(* followed by the link target of the first matching entry in document      *)
(* order.                                                                   *)
C14_ResolverFirstMatch ==
    answer # << >> =>
        LET blocks == IF ask.listing = None THEN << >> ELSE Val(ask.listing)
            matching == { i \in 1..Len(blocks) :
                             DisplayTextContains(blocks[i], ask.title) }
        IN IF matching = {}
           THEN answer = [raised |-> FALSE, url |-> None]
           ELSE \E i \in matching :
                   /\ \A j \in matching : i <= j
                   /\ answer = [raised |-> FALSE,
                                url |-> Some(BASE_URL \o
                                             Tail(Val(blocks[i].a).href))]

----------------------------------------------------------------------------
(* Claims about entries that are not recorded, checked under Spec            *)

\* the entry being processed has a status other than recorded and released,
\* or none
NotYetRecorded ==
    /\ pc \in EntrySteps
    /\ Get(entry, "status") \notin { Some("recorded"), Some("released") }

----------------------------------------------------------------------------
(* Claims about the two tables together, checked under Spec                  *)

(* C17: in every state reached by any sequence of passes, the talk_id of    *)
(* every row of files is the id of a row of talks; and no step removes a    *)
(* row of talks.                                                            *)
C17_FileRowsReferToTalks ==
    /\ [](\A i \in 1..Len(files) : files[i].talk_id \in DOMAIN talks)
    /\ [][\A id \in DOMAIN talks : id \in DOMAIN talks']_vars

\* files of two talks are recorded and both talks have their row
C17_Witness ==
    /\ DOMAIN talks = {1, 2}
    /\ \E i \in 1..Len(files) : files[i].talk_id = 1
    /\ \E i \in 1..Len(files) : files[i].talk_id = 2

(* C18: across any sequence of passes, once the stored release_url of a     *)
(* talk is non-empty it never becomes empty or absent again, in particular  *)
(* not by a later snapshot with a newer mtime and no release_url for which  *)
(* the resolver finds nothing.                                              *)
C18_ReleaseUrlNeverErased ==
    [][ \A id \in DOMAIN talks :
           Truthy(talks[id].release_url) =>
              /\ id \in DOMAIN talks'
              /\ Truthy(talks'[id].release_url) ]_vars

(* C19: at the end of every pass, the local_path of every row of files      *)
(* holds a file that was retrieved, to its end, from the row's file_url.    *)
C19_RecordedFilesAreOnDisk ==
    pc = "ended" =>
        \A i \in 1..Len(files) :
           /\ Exists(disk, files[i].local_path)
           /\ disk[files[i].local_path].content = files[i].file_url

----------------------------------------------------------------------------
(* Claims about the enrichment, checked under Spec                           *)

(* C13: the update of a talk's authors and description is executed if and   *)
(* only if the extractor returned a non-empty authors string or a non-empty *)
(* description: then both columns take the extractor's values; when both    *)
(* are empty, as they are when the release page fetch failed, the table     *)
(* talks is left unchanged; and no other step changes the authors or the    *)
(* description of a stored talk.                                            *)
C13_EnrichmentIffNonEmpty ==
    [][ /\ pc = "enrich" =>
             IF extra_info.authors # "" \/ extra_info.description # ""
             THEN talks' = [talks EXCEPT
                              ![talk_data.id].authors = Some(extra_info.authors),
                              ![talk_data.id].description =
                                  Some(extra_info.description)]
             ELSE talks' = talks
        /\ pc # "enrich" =>
             \A id \in DOMAIN talks :
                /\ id \in DOMAIN talks'
                /\ talks'[id].authors = talks[id].authors
                /\ talks'[id].description = talks[id].description ]_vars

\* the release page fetch failed for a talk enriched by an earlier pass: the
\* enrichment step has run and the stored values are still there
C13_Witness ==
    /\ pc = "hd"
    /\ extra_info = EmptyBundle
    /\ talks[talk_data.id].authors = Some("Alice, Bob")
    /\ talks[talk_data.id].description = Some("About")

\* a stored text column holds a non-empty string
NonEmptyText(column) == column # None /\ Val(column) # ""

(* C20: the enrichment update never replaces a stored non-empty authors     *)
(* value or a stored non-empty description by an empty one: when the        *)
(* extractor returns a non-empty value for only one of the two, the other   *)
(* column keeps its stored non-empty value.                                 *)
C20_EnrichmentNeverClobbers ==
    [][ \A id \in DOMAIN talks :
           /\ NonEmptyText(talks[id].authors) =>
                 (id \in DOMAIN talks' /\ NonEmptyText(talks'[id].authors))
           /\ NonEmptyText(talks[id].description) =>
                 (id \in DOMAIN talks' /\ NonEmptyText(talks'[id].description))
      ]_vars

----------------------------------------------------------------------------
(* Claims about re-running, checked under SpecResume                         *)

\* a pass has run to its end after the uninterrupted pass was kept
PassEnded == ref # None /\ pc \in {"ended", "crashed"}

\* catalog and directory are those the uninterrupted pass left
SameAsUninterrupted ==
    /\ talks = Val(ref).talks
    /\ files = Val(ref).files
    /\ disk = Val(ref).disk

\* the probe reports no Content-Length, or the size of the body that the
\* transfer delivers
LengthMatchesBody ==
    \A probe \in Val(remote).probes, t \in Val(remote).transfers :
       probe = None \/ probe = Some(t.chunks)

(* C12 as stated: with an unchanged feed and a stably available remote, a   *)
(* pass that was interrupted after any step or inside a download, followed  *)
(* by a fresh pass that runs to its end, leaves the same rows of talks, the *)
(* same rows of files and the same files in the directory as one            *)
(* uninterrupted pass; so do two complete passes.                           *)
C12_InterruptedThenFreshPassConverges == PassEnded => SameAsUninterrupted

(* C12 amended: the same, for a stably available remote whose probe reports *)
(* for every asset either no Content-Length or exactly the size of the body *)
(* that the transfer delivers.                                              *)
C12_ConvergesWhenLengthMatchesBody ==
    (PassEnded /\ LengthMatchesBody) => SameAsUninterrupted

\* a pass was killed inside the download of the muxed recording after one
\* of two chunks; the fresh pass has ended and the file is whole
C12_Witness ==
    /\ pc = "ended"
    /\ ref # None
    /\ LengthMatchesBody
    /\ killed # None
    /\ Val(killed).at = "muxed"
    /\ \E path \in DOMAIN Val(killed).disk :
          /\ ~Val(killed).disk[path].whole
          /\ Val(killed).disk[path].size > 0
          /\ path \in DOMAIN disk
          /\ disk[path].whole
          /\ disk[path].size > Val(killed).disk[path].size
    /\ Len(files) >= 2

====
